---- MODULE Spec2Model ----
(***************************************************************************)
(* PantryWise: the pantry store and its request handlers (app.py, db.py).  *)
(*                                                                         *)
(* Spec     requests of several users run concurrently; every store call   *)
(*          (query_one / execute) is one atomic step that commits on its   *)
(*          own connection, a handler is a sequence of such steps.         *)
(* SpecSeq  the same handlers called one after another, each call whole.   *)
(* SpecMatch  compute_recipe_match as a function of the rows it reads.     *)
(* SpecConv   convert_unit applied to a quantity, and to its own result.   *)
(* SpecShop   the shopping list of one user: add_item, toggle_done and the *)
(*          moves to the pantry, statement by statement, with failures.    *)
(***************************************************************************)
EXTENDS Integers, Sequences, FiniteSets, TLC

(* ------------------------------ bounds --------------------------------- *)
\* requests issued in one behaviour of Spec
MaxRequests == 3
\* handler calls made in one behaviour of SpecSeq
MaxCalls == 4
\* ingredients of a recipe in SpecMatch
MaxIngs == 2
\* pantry rows of the user in SpecMatch
MaxStock == 2
\* shopping requests made in SpecShop
MaxShopRequests == 5
\* rows ever inserted into shopping_list in SpecShop
MaxItems == 2

(* ------------------------------ values --------------------------------- *)
\* SQL NULL / Python None for a unit column (units are strings)
NoUnit == "NULL"
\* SQL NULL / Python None for a date: dates are options, <<>> or <<d>>
NoDate == <<>>
Date(d) == <<d>>

Users == {1, 2}
Names == {"rice", "salt"}
Units == {NoUnit, "g"}
Dates == {NoDate, Date(1), Date(2)}
\* quantities a form may carry into a merge (qty > 0 is checked by the callers)
MergeQtys == {1, 2}

\* request slots of Spec: two requests may be in flight at once
Procs == {"p1", "p2"}
\* the merge_into_pantry calls issued in Spec: the key (1, "rice", unit) in full,
\* and one call of another user
ConcMerges ==
    {[op |-> "merge", uid |-> 1, name |-> "rice", qty |-> q, unit |-> un, exp |-> e, id |-> 0] :
        q \in MergeQtys, un \in Units, e \in {NoDate, Date(1)}}
    \cup {[op |-> "merge", uid |-> 2, name |-> "rice", qty |-> 1, unit |-> "g", exp |-> NoDate, id |-> 0]}
\* the (quantity, unit, expiry) forms posted to pantry_edit in Spec
ConcEdits == {<<0, NoUnit, NoDate>>, <<3, "g", Date(2)>>}
\* the merge_into_pantry calls made in SpecSeq: the keys (1, "rice", "g") and
\* (1, "rice", NULL) with every expiry, one call for another name and one call of
\* another user
SeqMerges ==
    {[op |-> "merge", uid |-> 1, name |-> "rice", qty |-> q, unit |-> "g", exp |-> e, id |-> 0] :
        q \in MergeQtys, e \in Dates}
    \cup {[op |-> "merge", uid |-> 1, name |-> "rice", qty |-> 1, unit |-> NoUnit, exp |-> e, id |-> 0] :
        e \in Dates}
    \cup {[op |-> "merge", uid |-> 1, name |-> "salt", qty |-> 1, unit |-> "g", exp |-> Date(2), id |-> 0],
          [op |-> "merge", uid |-> 2, name |-> "rice", qty |-> 1, unit |-> "g", exp |-> Date(1), id |-> 0]}
\* the item ids posted to pantry_delete / pantry_edit
ItemIds == {1, 2}

Min(a, b) == IF a <= b THEN a ELSE b

(* ------------------------------ state ---------------------------------- *)
VARIABLES
    pantry,     \* pantry_items: id -> [user, name, qty, unit, exp]
    nextId,     \* AUTO_INCREMENT of pantry_items.id
    \* ---- Spec: requests in flight
    pc,         \* per request slot: where its handler stands
    req,        \* per request slot: the request's parameters
    existing,   \* per request slot: the row merge_into_pantry's lookup returned
    issued,     \* number of requests started so far
    credited,   \* (user, name, unit) -> quantity of the merges that returned
    edited,     \* a pantry_delete or pantry_edit statement has run
    \* ---- SpecSeq: one handler call at a time
    calls,      \* number of handler calls made so far
    last,       \* the last call: its parameters and how it ended
    pre,        \* pantry_items as the last call found it
    seen,       \* id -> the expiry dates merged into the row since it was written
    streak,     \* the merge repeated since its key had no row, and how many times
    \* ---- SpecMatch: one call of compute_recipe_match
    recipe,     \* ings: the recipe_ingredients rows of the recipe
    snapshot,   \* pantry: the pantry_items rows of the user
    source,     \* the unit_conversion rows, and whether the query can be run
    table,      \* conv_table: the table load_unit_conversions returned
    result,     \* what compute_recipe_match returned
    mpc,        \* "ready" before the call, "done" after it
    \* ---- SpecConv: convert_unit there and back
    cq,         \* the quantity converted
    cfrom,      \* from_unit
    cto,        \* to_unit
    cout,       \* convert_unit(cq, cfrom, cto, table)
    cback,      \* convert_unit(cout, cto, cfrom, table)
    cpc,        \* "ready", "converted", "back"
    \* ---- SpecShop: the shopping list of one user and its moves to the pantry
    shop,       \* shopping_list: id -> [name, qty, unit, done]
    shopNext,   \* AUTO_INCREMENT of shopping_list.id
    spc,        \* per request slot: where its move stands
    mv,         \* per request slot: the move's item id, the rows it selected, its place
    sissued,    \* number of shopping requests made so far
    merged,     \* item id -> number of merge_into_pantry writes made for the item
    moved       \* ids of the items a move's DELETE removed

storevars == <<pantry, nextId>>
matchvars == <<recipe, snapshot, source, table, result, mpc>>
concvars == <<pc, req, existing, issued, credited, edited>>
seqvars == <<calls, last, pre, seen, streak>>
convvars == <<cq, cfrom, cto, cout, cback, cpc>>
shopvars == <<shop, shopNext, spc, mv, sissued, merged, moved>>
vars == <<storevars, concvars, seqvars, matchvars, convvars, shopvars>>

Keys == Users \X Names \X Units
NoRow == [id |-> 0]
NoReq == [op |-> "none", uid |-> 1, name |-> "rice", qty |-> 0, unit |-> NoUnit,
          exp |-> NoDate, id |-> 0]

NoCall == [op |-> "none", uid |-> 1, name |-> "rice", qty |-> 0, unit |-> NoUnit,
           exp |-> NoDate, id |-> 0, out |-> "none", at |-> "none", found |-> 0]

(* --------------------------- store statements -------------------------- *)
\* rows of one user
RowsOf(p, uid) == {i \in DOMAIN p : p[i].user = uid}

\* the lookup with "unit = %s" in place of "unit <=> %s": NULL never equals NULL
QualifyingPlainEquals(p, uid, name, unit) ==
    {i \in DOMAIN p : p[i].user = uid /\ p[i].name = name /\ p[i].unit = unit /\ unit # NoUnit}

\* WHERE user_id = uid AND item_name = name AND (unit <=> unit)
Qualifying(p, uid, name, unit) ==
    {i \in DOMAIN p : p[i].user = uid /\ p[i].name = name /\ p[i].unit = unit}

\* ORDER BY expires_on ASC alone: NULL sorts first
SortsBeforeNullsFirst(p, i, j) ==
    \/ p[i].exp = NoDate
    \/ p[j].exp # NoDate /\ p[i].exp[1] <= p[j].exp[1]

\* ORDER BY expires_on IS NULL, expires_on ASC: i sorts no later than j
SortsBefore(p, i, j) ==
    \/ p[j].exp = NoDate
    \/ p[i].exp # NoDate /\ p[i].exp[1] <= p[j].exp[1]

\* ... LIMIT 1: the ids the lookup may return (rows that tie come in any order)
SelectExisting(p, uid, name, unit) ==
    LET q == Qualifying(p, uid, name, unit)
    IN {i \in q : \A j \in q : SortsBefore(p, i, j)}

\* the CASE with the incoming date always written
ExpiryOverwritten(old, new) == new

\* CASE WHEN expires_on IS NULL THEN new WHEN new IS NULL THEN expires_on
\*      ELSE LEAST(expires_on, new) END
ExpiryCase(old, new) ==
    IF old = NoDate THEN new
    ELSE IF new = NoDate THEN old
    ELSE Date(Min(old[1], new[1]))

\* UPDATE ... SET quantity = quantity + qty, expires_on = CASE ... WHERE id AND user_id
UpdateWithExpiry(p, id, uid, qty, exp) ==
    [i \in DOMAIN p |->
        IF i = id /\ p[i].user = uid
        THEN [p[i] EXCEPT !.qty = @ + qty, !.exp = ExpiryCase(@, exp)]
        ELSE p[i]]

\* the quantity bump without "id = %s" in its WHERE
UpdateQuantityAnyId(p, id, uid, qty) ==
    [i \in DOMAIN p |-> IF p[i].user = uid THEN [p[i] EXCEPT !.qty = @ + qty] ELSE p[i]]

\* UPDATE pantry_items SET quantity = quantity + qty WHERE id AND user_id
UpdateQuantity(p, id, uid, qty) ==
    [i \in DOMAIN p |->
        IF i = id /\ p[i].user = uid THEN [p[i] EXCEPT !.qty = @ + qty] ELSE p[i]]

\* INSERT INTO pantry_items(user_id, item_name, quantity, unit, expires_on)
InsertRow(p, id, uid, name, qty, unit, exp) ==
    [i \in DOMAIN p \cup {id} |->
        IF i = id THEN [user |-> uid, name |-> name, qty |-> qty, unit |-> unit, exp |-> exp]
        ELSE p[i]]

\* the DELETE without "user_id = %s" in its WHERE
DeleteRowAnyUser(p, id, uid) ==
    [i \in {j \in DOMAIN p : j # id} |-> p[i]]

\* DELETE FROM pantry_items WHERE id = %s AND user_id = %s
DeleteRow(p, id, uid) ==
    [i \in {j \in DOMAIN p : ~(j = id /\ p[j].user = uid)} |-> p[i]]

\* UPDATE pantry_items SET quantity, unit, expires_on WHERE id AND user_id
EditRow(p, id, uid, qty, unit, exp) ==
    [i \in DOMAIN p |->
        IF i = id /\ p[i].user = uid
        THEN [p[i] EXCEPT !.qty = qty, !.unit = unit, !.exp = exp]
        ELSE p[i]]

\* SELECT item_name, unit, quantity FROM pantry_items WHERE user_id = %s
SelectPantry(p, uid) ==
    [i \in RowsOf(p, uid) |-> [name |-> p[i].name, unit |-> p[i].unit, qty |-> p[i].qty]]

\* the statement merge_into_pantry runs after its lookup
MergeWrite(p, nid, r, ex) ==
    IF ex # NoRow
    THEN IF r.exp # NoDate
         THEN UpdateWithExpiry(p, ex.id, r.uid, r.qty, r.exp)
         ELSE UpdateQuantity(p, ex.id, r.uid, r.qty)
    ELSE InsertRow(p, nid, r.uid, r.name, r.qty, r.unit, r.exp)

\* execute() without its rollback: what the statement did stays
NotRolledBack(p, attempted) == attempted

\* execute(): a statement that raises is rolled back before the error is re-raised
RolledBack(p, attempted) == p

(* ------------------------ numbers of the matcher ----------------------- *)
\* Python floats, modelled as exact rationals <<n, d>> in lowest terms, d > 0
RECURSIVE Gcd(_, _)
Gcd(a, b) == IF b = 0 THEN a ELSE Gcd(b, a % b)

Abs(a) == IF a < 0 THEN -a ELSE a

Rat(n, d) ==
    LET g == Gcd(Abs(n), Abs(d))
        sg == IF d < 0 THEN -1 ELSE 1
    IN <<(sg * n) \div g, (sg * d) \div g>>

Zero == <<0, 1>>
RatAdd(x, y) == Rat(x[1] * y[2] + y[1] * x[2], x[2] * y[2])
RatSub(x, y) == Rat(x[1] * y[2] - y[1] * x[2], x[2] * y[2])
RatMul(x, y) == Rat(x[1] * y[1], x[2] * y[2])
\* y is not zero
RatDiv(x, y) == Rat(x[1] * y[2], x[2] * y[1])
RatGeq(x, y) == x[1] * y[2] >= y[1] * x[2]
RatMax(x, y) == IF RatGeq(x, y) THEN x ELSE y

\* round(x, 2): the nearest multiple of 1/100, a tie going to the even one
Round2(x) ==
    LET s == 100 * x[1]
        f == s \div x[2]
        r == s % x[2]
        k == IF 2 * r < x[2] THEN f
             ELSE IF 2 * r > x[2] THEN f + 1
             ELSE IF f % 2 = 0 THEN f ELSE f + 1
    IN Rat(k, 100)

(* ------------------------ strings of the matcher ----------------------- *)
\* str.lower() on the strings of the model
Lower(s) ==
    CASE s = "G" -> "g"
      [] s = "KG" -> "kg"
      [] s = "Kg" -> "kg"
      [] s = "Flour" -> "flour"
      [] s = "FLOUR" -> "flour"
      [] s = "Rice" -> "rice"
      [] OTHER -> s

\* "not unit": None and the empty string are falsy
Falsy(u) == u = NoUnit \/ u = ""
\* (unit or "").lower()
UnitKey(u) == IF Falsy(u) THEN "" ELSE Lower(u)

(* --------------------------- unit conversion --------------------------- *)
\* outcomes of a call: a number, None, or an exception leaving the call
Num(x) == [t |-> "num", v |-> x]
Absent == [t |-> "none", v |-> Zero]
Raised == [t |-> "raise", v |-> Zero]

\* float(...) of a to_base_factor column: <<>> stands for a value float() rejects
Unparsable == <<>>

\* a row load_unit_conversions cannot take: r["unit"].lower() or float(...) raises
Malformed(r) == r.unit = NoUnit \/ r.factor = Unparsable

\* the loop of load_unit_conversions over well-formed rows: families in the order
\* of their first row, unit keys lower-cased, a later row of a unit replacing its factor
RECURSIVE LoadRows(_, _)
LoadRows(rows, conversions) ==
    IF rows = <<>> THEN conversions
    ELSE LET r == Head(rows)
             u == Lower(r.unit)
             at == {i \in 1..Len(conversions) : conversions[i].fam = r.family}
             added == IF at = {}
                      THEN Append(conversions, [fam |-> r.family, units |-> <<>>])
                      ELSE conversions
             k == CHOOSE i \in 1..Len(added) : added[i].fam = r.family
             units == [x \in DOMAIN added[k].units \cup {u} |->
                          IF x = u THEN r.factor ELSE added[k].units[x]]
         IN LoadRows(Tail(rows), [added EXCEPT ![k].units = units])

\* load_unit_conversions with the try inside the loop: a bad row is skipped
load_unit_conversionsSkipping(src) ==
    IF ~src.available THEN <<>>
    ELSE LoadRows(SelectSeq(src.rows, LAMBDA r : ~Malformed(r)), <<>>)

\* load_unit_conversions(): {} when the query or any row raises
load_unit_conversions(src) ==
    IF ~src.available \/ \E i \in 1..Len(src.rows) : Malformed(src.rows[i])
    THEN <<>>
    ELSE LoadRows(src.rows, <<>>)

\* the families holding both keys, in table order
FamiliesWith(conversions, u1, u2) ==
    {i \in 1..Len(conversions) :
        u1 \in DOMAIN conversions[i].units /\ u2 \in DOMAIN conversions[i].units}

\* convert_unit with the two factors exchanged
convert_unitInverted(qty, from_unit, to_unit, conversions) ==
    IF Falsy(from_unit) \/ Falsy(to_unit) THEN Absent
    ELSE LET u1 == Lower(from_unit)
             u2 == Lower(to_unit)
             fams == FamiliesWith(conversions, u1, u2)
         IN IF u1 = u2 THEN Num(qty)
            ELSE IF fams = {} THEN Absent
            ELSE LET k == CHOOSE i \in fams : \A j \in fams : i <= j
                     units == conversions[k].units
                 IN IF units[u1] = Zero THEN Raised
                    ELSE Num(RatDiv(RatMul(qty, units[u2]), units[u1]))

\* convert_unit without the division by the target's factor
convert_unitToBase(qty, from_unit, to_unit, conversions) ==
    IF Falsy(from_unit) \/ Falsy(to_unit) THEN Absent
    ELSE LET u1 == Lower(from_unit)
             u2 == Lower(to_unit)
             fams == FamiliesWith(conversions, u1, u2)
         IN IF u1 = u2 THEN Num(qty)
            ELSE IF fams = {} THEN Absent
            ELSE LET k == CHOOSE i \in fams : \A j \in fams : i <= j
                 IN Num(RatMul(qty, conversions[k].units[u1]))

\* convert_unit(qty, from_unit, to_unit, conversions)
convert_unit(qty, from_unit, to_unit, conversions) ==
    IF Falsy(from_unit) \/ Falsy(to_unit) THEN Absent
    ELSE LET u1 == Lower(from_unit)
             u2 == Lower(to_unit)
             fams == FamiliesWith(conversions, u1, u2)
         IN IF u1 = u2 THEN Num(qty)
            ELSE IF fams = {} THEN Absent
            ELSE LET k == CHOOSE i \in fams : \A j \in fams : i <= j
                     units == conversions[k].units
                 IN IF units[u2] = Zero THEN Raised
                    ELSE Num(RatDiv(RatMul(qty, units[u1]), units[u2]))

(* ------------------------------ the matcher ---------------------------- *)
\* pantry_map.get(req_name.lower(), []): the rows of the name, in snapshot order
Matches(stock, req_name) ==
    SelectSeq(stock, LAMBDA m : Lower(m.name) = Lower(req_name))

\* the inner loop counting a row it could not convert at its face value
PassCountingUnconverted(m, req_unit, conv_table) ==
    IF UnitKey(m.unit) = UnitKey(req_unit)
    THEN [same |-> TRUE, converted |-> Absent, add |-> Num(m.qty)]
    ELSE LET converted == convert_unit(m.qty, m.unit, req_unit, conv_table)
         IN [same |-> FALSE, converted |-> converted,
             add |-> IF converted.t = "none" THEN Num(m.qty) ELSE converted]

\* one pass of the inner loop over pantry row m: Case A (same is TRUE) adds the
\* quantity, Case B adds what convert_unit returned unless it is None
Pass(m, req_unit, conv_table) ==
    IF UnitKey(m.unit) = UnitKey(req_unit)
    THEN [same |-> TRUE, converted |-> Absent, add |-> Num(m.qty)]
    ELSE LET converted == convert_unit(m.qty, m.unit, req_unit, conv_table)
         IN [same |-> FALSE, converted |-> converted,
             add |-> IF converted.t = "none" THEN Num(Zero) ELSE converted]

\* the inner loop: its passes, in order
Passes(matches, req_unit, conv_table) ==
    [j \in 1..Len(matches) |-> Pass(matches[j], req_unit, conv_table)]

\* total_on_hand_in_req_unit after the passes, or the exception that ended the loop
RECURSIVE TotalOnHand(_)
TotalOnHand(passes) ==
    IF passes = <<>> THEN Num(Zero)
    ELSE LET n == Len(passes)
             before == TotalOnHand(SubSeq(passes, 1, n - 1))
         IN IF before.t = "raise" \/ passes[n].add.t = "raise" THEN Raised
            ELSE Num(RatAdd(before.v, passes[n].add.v))

\* float(r["amount"] or 0)
ReqAmount(r) == IF r.amount = <<>> THEN Zero ELSE r.amount

\* the dict appended to have
HaveEntry(r, total) ==
    [name |-> r.name, need |-> ReqAmount(r), unit |-> r.unit, have |-> Round2(total)]

\* the dict appended to missing
MissingEntry(r, total) ==
    [name |-> r.name, need |-> ReqAmount(r), unit |-> r.unit, have |-> Round2(total),
     short |-> Round2(RatMax(RatSub(ReqAmount(r), total), Zero))]

\* the test of line 147 with > in place of >=
EnoughStrictly(r, total) == ~RatGeq(ReqAmount(r), total)

\* if total_on_hand_in_req_unit >= req_amount
Enough(r, total) == RatGeq(total, ReqAmount(r))

\* the outer loop putting each new entry at the head of its list
RECURSIVE ClassifyPrepending(_, _, _, _)
ClassifyPrepending(ings, n, stock, conv_table) ==
    IF n = 0 THEN [have |-> <<>>, missing |-> <<>>, raised |-> FALSE, trace |-> <<>>]
    ELSE LET acc == ClassifyPrepending(ings, n - 1, stock, conv_table)
             r == ings[n]
             passes == Passes(Matches(stock, r.name), r.unit, conv_table)
             total == TotalOnHand(passes)
         IN IF acc.raised \/ total.t = "raise"
            THEN [have |-> <<>>, missing |-> <<>>, raised |-> TRUE, trace |-> <<>>]
            ELSE IF Enough(r, total.v)
            THEN [acc EXCEPT !.have = <<HaveEntry(r, total.v)>> \o @,
                             !.trace = Append(@, [passes |-> passes, total |-> total.v,
                                                  into |-> "have"])]
            ELSE [acc EXCEPT !.missing = <<MissingEntry(r, total.v)>> \o @,
                             !.trace = Append(@, [passes |-> passes, total |-> total.v,
                                                  into |-> "missing"])]

\* the outer loop over ings[1..n]: the have and missing lists built so far, and for
\* each ingredient the passes made, the total reached and the list it went to
RECURSIVE Classify(_, _, _, _)
Classify(ings, n, stock, conv_table) ==
    IF n = 0 THEN [have |-> <<>>, missing |-> <<>>, raised |-> FALSE, trace |-> <<>>]
    ELSE LET acc == Classify(ings, n - 1, stock, conv_table)
             r == ings[n]
             passes == Passes(Matches(stock, r.name), r.unit, conv_table)
             total == TotalOnHand(passes)
         IN IF acc.raised \/ total.t = "raise"
            THEN [have |-> <<>>, missing |-> <<>>, raised |-> TRUE, trace |-> <<>>]
            ELSE IF Enough(r, total.v)
            THEN [acc EXCEPT !.have = Append(@, HaveEntry(r, total.v)),
                             !.trace = Append(@, [passes |-> passes, total |-> total.v,
                                                  into |-> "have"])]
            ELSE [acc EXCEPT !.missing = Append(@, MissingEntry(r, total.v)),
                             !.trace = Append(@, [passes |-> passes, total |-> total.v,
                                                  into |-> "missing"])]

\* compute_recipe_match reporting a recipe without ingredients as fully matched
compute_recipe_matchEmptyFull(ings, stock, conv_table) ==
    LET lists == Classify(ings, Len(ings), stock, conv_table)
        total_need == IF Len(ings) > 0 THEN Len(ings) ELSE 1
        have_count == Len(lists.have)
    IN [raised |-> lists.raised, have |-> lists.have, missing |-> lists.missing,
        match_pct |-> IF Len(ings) > 0 THEN Round2(Rat(100 * have_count, total_need))
                      ELSE Rat(100, 1),
        total |-> total_need, have_count |-> have_count, trace |-> lists.trace]

\* compute_recipe_match reporting the fraction have_count / total_need, not the percentage
compute_recipe_matchUnscaled(ings, stock, conv_table) ==
    LET lists == Classify(ings, Len(ings), stock, conv_table)
        total_need == IF Len(ings) > 0 THEN Len(ings) ELSE 1
        have_count == Len(lists.have)
    IN [raised |-> lists.raised, have |-> lists.have, missing |-> lists.missing,
        match_pct |-> Round2(Rat(have_count, total_need)),
        total |-> total_need, have_count |-> have_count, trace |-> lists.trace]

\* compute_recipe_match, from the rows its queries returned and the table it loaded
compute_recipe_match(ings, stock, conv_table) ==
    LET lists == Classify(ings, Len(ings), stock, conv_table)
        total_need == IF Len(ings) > 0 THEN Len(ings) ELSE 1
        have_count == Len(lists.have)
    IN [raised |-> lists.raised, have |-> lists.have, missing |-> lists.missing,
        match_pct |-> Round2(Rat(100 * have_count, total_need)),
        total |-> total_need, have_count |-> have_count, trace |-> lists.trace]

(* ------------------------- Spec: concurrent requests ------------------- *)
Free(s) == pc[s] \in {"idle", "returned", "raised"}

\* a request arrives and its handler starts; it takes the first free slot
Begin(s, r, at) ==
    /\ Free(s)
    /\ s = "p2" => ~Free("p1")
    /\ issued < MaxRequests
    /\ issued' = issued + 1
    /\ req' = [req EXCEPT ![s] = r]
    /\ pc' = [pc EXCEPT ![s] = at]
    /\ UNCHANGED <<seqvars, matchvars, convvars, pantry, nextId, existing, credited, edited, shopvars>>

\* a handler ends: its locals are gone
End(s, how) ==
    /\ pc' = [pc EXCEPT ![s] = how]
    /\ req' = [req EXCEPT ![s] = NoReq]
    /\ existing' = [existing EXCEPT ![s] = NoRow]

\* pantry() POST / shopping move: merge_into_pantry(uid, name, qty, unit, expires_on) is called
StartMerge(s) ==
    \E r \in ConcMerges : Begin(s, r, "merge_lookup")

\* POST /pantry/delete/<item_id>
StartDelete(s) ==
    \E u \in Users, i \in ItemIds :
        Begin(s, [NoReq EXCEPT !.op = "delete", !.uid = u, !.id = i], "delete_exec")

\* POST /pantry/edit/<item_id>
StartEdit(s) ==
    \E u \in Users, i \in ItemIds, f \in ConcEdits :
        Begin(s, [op |-> "edit", uid |-> u, name |-> "rice", qty |-> f[1], unit |-> f[2],
                  exp |-> f[3], id |-> i], "edit_exec")

\* merge_into_pantry: existing = query_one(...)
MergeLookup(s) ==
    /\ pc[s] = "merge_lookup"
    /\ LET c == SelectExisting(pantry, req[s].uid, req[s].name, req[s].unit)
       IN IF c = {}
          THEN existing' = [existing EXCEPT ![s] = NoRow]
          ELSE \E i \in c : existing' = [existing EXCEPT ![s] = [id |-> i]]
    /\ pc' = [pc EXCEPT ![s] = "merge_write"]
    /\ UNCHANGED <<seqvars, matchvars, convvars, pantry, nextId, req, issued, credited, edited, shopvars>>

\* merge_into_pantry: the execute(...) of the branch taken, committed; the call returns
MergeExecute(s) ==
    /\ pc[s] = "merge_write"
    /\ pantry' = MergeWrite(pantry, nextId, req[s], existing[s])
    /\ nextId' = IF existing[s] = NoRow THEN nextId + 1 ELSE nextId
    /\ credited' = [credited EXCEPT ![<<req[s].uid, req[s].name, req[s].unit>>] = @ + req[s].qty]
    /\ End(s, "returned")
    /\ UNCHANGED <<seqvars, matchvars, convvars, issued, edited, shopvars>>

\* query_one raises: the error leaves merge_into_pantry
MergeLookupFails(s) ==
    /\ pc[s] = "merge_lookup"
    /\ End(s, "raised")
    /\ UNCHANGED <<seqvars, matchvars, convvars, pantry, nextId, issued, credited, edited, shopvars>>

\* execute raises: rollback, then the error leaves merge_into_pantry
MergeExecuteFails(s) ==
    /\ pc[s] = "merge_write"
    /\ pantry' = RolledBack(pantry, MergeWrite(pantry, nextId, req[s], existing[s]))
    /\ End(s, "raised")
    /\ UNCHANGED <<seqvars, matchvars, convvars, nextId, issued, credited, edited, shopvars>>

\* pantry_delete: execute("DELETE ...")
DeleteExecute(s) ==
    /\ pc[s] = "delete_exec"
    /\ pantry' = DeleteRow(pantry, req[s].id, req[s].uid)
    /\ edited' = TRUE
    /\ End(s, "returned")
    /\ UNCHANGED <<seqvars, matchvars, convvars, nextId, issued, credited, shopvars>>

\* pantry_edit: execute("UPDATE ...")
EditExecute(s) ==
    /\ pc[s] = "edit_exec"
    /\ pantry' = EditRow(pantry, req[s].id, req[s].uid, req[s].qty, req[s].unit, req[s].exp)
    /\ edited' = TRUE
    /\ End(s, "returned")
    /\ UNCHANGED <<seqvars, matchvars, convvars, nextId, issued, credited, shopvars>>

\* the ids shopping_list hands out
ShopIds == 1..MaxItems

NoMove == [op |-> "none", id |-> 0, items |-> <<>>, k |-> 0, ex |-> NoRow]

\* SpecShop's variables, at rest
NoShop ==
    /\ shop = <<>>
    /\ shopNext = 1
    /\ spc = [s \in Procs |-> "idle"]
    /\ mv = [s \in Procs |-> NoMove]
    /\ sissued = 0
    /\ merged = [i \in ShopIds |-> 0]
    /\ moved = {}

InitStore ==
    /\ pantry = <<>>
    /\ nextId = 1

InitConc ==
    /\ pc = [s \in Procs |-> "idle"]
    /\ req = [s \in Procs |-> NoReq]
    /\ existing = [s \in Procs |-> NoRow]
    /\ issued = 0
    /\ credited = [k \in Keys |-> 0]
    /\ edited = FALSE

InitSeq ==
    /\ calls = 0
    /\ last = NoCall
    /\ pre = <<>>
    /\ seen = <<>>
    /\ streak = [item |-> NoReq, n |-> 0]

NoResult == [raised |-> FALSE, have |-> <<>>, missing |-> <<>>, match_pct |-> Zero,
             total |-> 0, have_count |-> 0, trace |-> <<>>]

\* SpecMatch's variables, at rest
NoMatch ==
    /\ recipe = <<>>
    /\ snapshot = <<>>
    /\ source = [available |-> TRUE, rows |-> <<>>]
    /\ table = <<>>
    /\ result = NoResult
    /\ mpc = "idle"

\* SpecConv's variables, at rest
NoConv ==
    /\ cq = Zero
    /\ cfrom = NoUnit
    /\ cto = NoUnit
    /\ cout = Absent
    /\ cback = Absent
    /\ cpc = "idle"

Init ==
    /\ NoShop
    /\ InitStore
    /\ InitConc
    /\ InitSeq
    /\ NoMatch
    /\ NoConv

Next ==
    \E s \in Procs :
        \/ StartMerge(s)
        \/ StartDelete(s)
        \/ StartEdit(s)
        \/ MergeLookup(s)
        \/ MergeExecute(s)
        \/ MergeLookupFails(s)
        \/ MergeExecuteFails(s)
        \/ DeleteExecute(s)
        \/ EditExecute(s)

Spec == Init /\ [][Next]_vars

(* ---------------------- SpecSeq: one call at a time --------------------- *)
\* the record left of a call: r its parameters, found the row the lookup returned
Ended(r, how, at, found) ==
    [op |-> r.op, uid |-> r.uid, name |-> r.name, qty |-> r.qty, unit |-> r.unit,
     exp |-> r.exp, id |-> r.id, out |-> how, at |-> at, found |-> found]

PresentDates(e) == IF e = NoDate THEN {} ELSE {e[1]}

\* the call record, the count and the snapshot every call leaves
Called(rec) ==
    /\ calls < MaxCalls
    /\ calls' = calls + 1
    /\ last' = rec
    /\ pre' = pantry
    /\ UNCHANGED <<concvars, matchvars, convvars, shopvars>>

\* merge_into_pantry(uid, name, qty, unit, expires_on), lookup and write, returns
SeqMerge ==
    \E r \in SeqMerges :
        LET c == SelectExisting(pantry, r.uid, r.name, r.unit)
        IN \E ex \in (IF c = {} THEN {NoRow} ELSE {[id |-> i] : i \in c}) :
            /\ Called(Ended(r, "returned", "end", ex.id))
            /\ pantry' = MergeWrite(pantry, nextId, r, ex)
            /\ nextId' = IF ex = NoRow THEN nextId + 1 ELSE nextId
            /\ seen' = IF ex = NoRow
                       THEN [i \in DOMAIN seen \cup {nextId} |->
                               IF i = nextId THEN PresentDates(r.exp) ELSE seen[i]]
                       ELSE [seen EXCEPT ![ex.id] = @ \cup PresentDates(r.exp)]
            /\ streak' = IF streak.n >= 1 /\ streak.item = r
                         THEN [streak EXCEPT !.n = @ + 1]
                         ELSE IF c = {} THEN [item |-> r, n |-> 1]
                         ELSE [item |-> NoReq, n |-> 0]

\* merge_into_pantry raises: query_one fails, or execute fails and rolls back
SeqMergeRaises ==
    \E r \in SeqMerges :
        \/ /\ Called(Ended(r, "raised", "lookup", 0))
           /\ UNCHANGED <<pantry, nextId, seen, streak>>
        \/ LET c == SelectExisting(pantry, r.uid, r.name, r.unit)
           IN \E ex \in (IF c = {} THEN {NoRow} ELSE {[id |-> i] : i \in c}) :
               /\ Called(Ended(r, "raised", "execute", ex.id))
               /\ pantry' = RolledBack(pantry, MergeWrite(pantry, nextId, r, ex))
               /\ UNCHANGED <<nextId, seen, streak>>

\* pantry_delete(item_id) of user u
SeqDelete ==
    \E u \in Users, i \in ItemIds :
        /\ Called(Ended([NoReq EXCEPT !.op = "delete", !.uid = u, !.id = i], "returned", "end", 0))
        /\ pantry' = DeleteRow(pantry, i, u)
        /\ seen' = [j \in DOMAIN pantry' |-> seen[j]]
        /\ streak' = [item |-> NoReq, n |-> 0]
        /\ UNCHANGED nextId

\* pantry_edit(item_id) of user u
SeqEdit ==
    \E u \in Users, i \in ItemIds, f \in ConcEdits :
        /\ Called(Ended([op |-> "edit", uid |-> u, name |-> "rice", qty |-> f[1], unit |-> f[2],
                         exp |-> f[3], id |-> i], "returned", "end", 0))
        /\ pantry' = EditRow(pantry, i, u, f[1], f[2], f[3])
        /\ seen' = [j \in DOMAIN seen |->
                      IF j = i /\ pantry[j].user = u THEN PresentDates(f[3]) ELSE seen[j]]
        /\ streak' = [item |-> NoReq, n |-> 0]
        /\ UNCHANGED nextId

\* the rows of a query result, in id order, quantities as floats
RECURSIVE AsRows(_)
AsRows(f) ==
    IF DOMAIN f = {} THEN <<>>
    ELSE LET i == CHOOSE x \in DOMAIN f : \A y \in DOMAIN f : y <= x
             r == [name |-> f[i].name, qty |-> Rat(f[i].qty, 1), unit |-> f[i].unit]
         IN Append(AsRows([j \in DOMAIN f \ {i} |-> f[j]]), r)

\* the recipe matched in SpecSeq, and the conversions it finds
SeqRecipe == <<[name |-> "rice", amount |-> Rat(2, 1), unit |-> "g"]>>
SeqSource == [available |-> TRUE, rows |-> <<>>]

\* compute_recipe_match(recipe_id, u)
SeqMatch ==
    \E u \in Users :
        /\ calls < MaxCalls
        /\ calls' = calls + 1
        /\ last' = Ended([NoReq EXCEPT !.op = "match", !.uid = u], "returned", "end", 0)
        /\ pre' = pantry
        /\ recipe' = SeqRecipe
        /\ snapshot' = AsRows(SelectPantry(pantry, u))
        /\ source' = SeqSource
        /\ table' = load_unit_conversions(source')
        /\ result' = compute_recipe_match(recipe', snapshot', table')
        /\ mpc' = "done"
        /\ UNCHANGED <<storevars, concvars, convvars, seen, streak, shopvars>>

NextSeq ==
    \/ SeqMerge
    \/ SeqMergeRaises
    \/ SeqDelete
    \/ SeqEdit
    \/ SeqMatch

SpecSeq == Init /\ [][NextSeq]_vars

(* --------------- SpecMatch: compute_recipe_match as a function ---------- *)
SeqsUpTo(S, n) == UNION {[1..k -> S] : k \in 0..n}

Ing(n, a, u) == [name |-> n, amount |-> a, unit |-> u]
Stock(n, q, u) == [name |-> n, qty |-> Rat(q, 1), unit |-> u]
Conv(f, u, x) == [family |-> f, unit |-> u, factor |-> x]
Rows(rs) == [available |-> TRUE, rows |-> rs]

\* recipe_ingredients rows: amount is a number or NULL (<<>>)
IngDomain ==
    {Ing("flour", Rat(500, 1), "g"), Ing("Flour", <<>>, NoUnit), Ing("flour", Rat(1, 1), "l"),
     Ing("flour", Rat(40, 1), "oz"), Ing("milk", Rat(1, 1), "l")}

\* pantry_items rows of the user
StockDomain ==
    {Stock("flour", 1, "kg"), Stock("FLOUR", 300, "G"), Stock("flour", 200, "ml"),
     Stock("flour", 1, NoUnit), Stock("Flour", 2, "")}

\* mass = {g: 1, kg: 1000}
MassTable == Rows(<<Conv("mass", "g", Rat(1, 1)), Conv("mass", "kg", Rat(1000, 1))>>)

\* contents of unit_conversion
Sources ==
    {[available |-> FALSE, rows |-> <<>>],
     Rows(<<>>),
     MassTable,
     Rows(<<Conv("mass", "G", Rat(1, 1)), Conv("mass", "KG", Rat(1000, 1)),
            Conv("mass", "oz", Rat(28, 1)),
            Conv("volume", "ml", Rat(1, 1)), Conv("volume", "l", Rat(1000, 1))>>),
     Rows(<<Conv("mass", "g", Rat(1, 1)), Conv("mass", "kg", Unparsable)>>),
     Rows(<<Conv("mass", "g", Rat(1, 1)), Conv("mass", "kg", Rat(1000, 1)),
            Conv("mass", NoUnit, Rat(1, 1))>>),
     Rows(<<Conv("alt", "g", Rat(1, 1)), Conv("mass", "g", Rat(1, 1)),
            Conv("mass", "kg", Rat(1000, 1)), Conv("alt", "kg", Rat(500, 1))>>),
     Rows(<<Conv("mass", "g", Rat(0, 1)), Conv("mass", "kg", Rat(1000, 1))>>),
     Rows(<<Conv("mass", "g", Rat(1, 1)), Conv("mass", "kg", Rat(1000, 1)),
            Conv("mass", "Kg", Rat(2, 1))>>),
     Rows(<<Conv("alt", "g", Rat(0, 1)), Conv("mass", "kg", Rat(1000, 1)),
            Conv("mass", "g", Rat(1, 1)), Conv("alt", "kg", Rat(500, 1))>>)}

InitMatch ==
    /\ recipe \in SeqsUpTo(IngDomain, MaxIngs)
    /\ snapshot \in SeqsUpTo(StockDomain, MaxStock)
    /\ source \in Sources
    /\ table = <<>>
    /\ result = NoResult
    /\ mpc = "ready"
    /\ NoShop
    /\ InitStore
    /\ InitConc
    /\ InitSeq
    /\ NoConv

\* compute_recipe_match(recipe_id, user_id): the three reads, then the loops
Match ==
    /\ mpc = "ready"
    /\ table' = load_unit_conversions(source)
    /\ result' = compute_recipe_match(recipe, snapshot, table')
    /\ mpc' = "done"
    /\ UNCHANGED <<recipe, snapshot, source, storevars, concvars, seqvars, convvars, shopvars>>

NextMatch == Match

SpecMatch == InitMatch /\ [][NextMatch]_vars

(* ------------------- SpecConv: convert_unit there and back -------------- *)
ConvQtys == {Rat(1, 1), Rat(500, 1), Rat(3, 2)}
ConvUnits == {NoUnit, "", "g", "G", "kg", "KG", "ml", "oz"}

InitConv ==
    /\ source \in Sources
    /\ table = load_unit_conversions(source)
    /\ recipe = <<>>
    /\ snapshot = <<>>
    /\ result = NoResult
    /\ mpc = "idle"
    /\ cq = Zero
    /\ cfrom = NoUnit
    /\ cto = NoUnit
    /\ cout = Absent
    /\ cback = Absent
    /\ cpc = "ready"
    /\ NoShop
    /\ InitStore
    /\ InitConc
    /\ InitSeq

\* convert_unit(q, a, b, table)
Convert ==
    /\ cpc = "ready"
    /\ \E q \in ConvQtys, a \in ConvUnits, b \in ConvUnits :
          /\ cq' = q
          /\ cfrom' = a
          /\ cto' = b
          /\ cout' = convert_unit(q, a, b, table)
    /\ cpc' = "converted"
    /\ UNCHANGED <<cback, storevars, concvars, seqvars, matchvars, shopvars>>

\* convert_unit(the number returned, b, a, table)
ConvertBack ==
    /\ cpc = "converted"
    /\ cout.t = "num"
    /\ cback' = convert_unit(cout.v, cto, cfrom, table)
    /\ cpc' = "back"
    /\ UNCHANGED <<cq, cfrom, cto, cout, storevars, concvars, seqvars, matchvars, shopvars>>

NextConv ==
    \/ Convert
    \/ ConvertBack

SpecConv == InitConv /\ [][NextConv]_vars

(* ------------- SpecShop: shopping-list items moved to the pantry -------- *)
\* the user whose shopping list this is (session["user_id"])
ShopUser == 1

\* the forms add_item receives: name, quantity, unit
ShopForms == {<<"rice", 1, "g">>, <<"rice", 2, NoUnit>>, <<"rice", 0, "g">>}

\* a shopping request is made
Requested ==
    /\ sissued < MaxShopRequests
    /\ sissued' = sissued + 1
    /\ UNCHANGED <<concvars, seqvars, matchvars, convvars>>

\* the row a SELECT of shopping_list returns for item i
ShopRow(i) == [id |-> i, name |-> shop[i].name, qty |-> shop[i].qty, unit |-> shop[i].unit]

\* the rows of ids, in each order a SELECT without ORDER BY may return them
RowsInAnyOrder(ids) ==
    {o \in [1..Cardinality(ids) -> ids] : \A a, b \in DOMAIN o : a # b => o[a] # o[b]}

\* action == "add_item": the INSERT, when the form has a name and a quantity above 0
AddItem ==
    \E f \in ShopForms :
        /\ Requested
        /\ shopNext <= MaxItems
        /\ IF f[2] > 0
           THEN /\ shop' = [i \in DOMAIN shop \cup {shopNext} |->
                              IF i = shopNext
                              THEN [name |-> f[1], qty |-> f[2], unit |-> f[3], done |-> 0]
                              ELSE shop[i]]
                /\ shopNext' = shopNext + 1
           ELSE UNCHANGED <<shop, shopNext>>
        /\ UNCHANGED <<storevars, spc, mv, merged, moved>>

\* action == "toggle_done": UPDATE shopping_list SET done = 1 - done WHERE id AND user_id
ToggleDone ==
    \E i \in ShopIds :
        /\ Requested
        /\ shop' = [j \in DOMAIN shop |->
                      IF j = i THEN [shop[j] EXCEPT !.done = 1 - @] ELSE shop[j]]
        /\ UNCHANGED <<storevars, shopNext, spc, mv, merged, moved>>

\* a move's handler ends: its locals are gone
MoveEnds(s) ==
    /\ spc' = [spc EXCEPT ![s] = "idle"]
    /\ mv' = [mv EXCEPT ![s] = NoMove]

\* action == "move_one" arrives for item i
StartMoveOne(s) ==
    \E i \in ShopIds :
        /\ spc[s] = "idle"
        /\ s = "p2" => spc["p1"] # "idle"
        /\ Requested
        /\ spc' = [spc EXCEPT ![s] = "select_one"]
        /\ mv' = [mv EXCEPT ![s] = [NoMove EXCEPT !.op = "move_one", !.id = i]]
        /\ UNCHANGED <<storevars, shop, shopNext, merged, moved>>

\* action == "move_to_pantry" arrives
StartMoveToPantry(s) ==
    /\ spc[s] = "idle"
    /\ s = "p2" => spc["p1"] # "idle"
    /\ Requested
    /\ spc' = [spc EXCEPT ![s] = "select_done"]
    /\ mv' = [mv EXCEPT ![s] = [NoMove EXCEPT !.op = "move_to_pantry"]]
    /\ UNCHANGED <<storevars, shop, shopNext, merged, moved>>

\* move_one: row = query_one("SELECT ... WHERE id AND user_id"); nothing more if no row
MoveOneSelect(s) ==
    /\ spc[s] = "select_one"
    /\ IF mv[s].id \in DOMAIN shop
       THEN /\ mv' = [mv EXCEPT ![s].items = <<ShopRow(mv[s].id)>>, ![s].k = 1]
            /\ spc' = [spc EXCEPT ![s] = "lookup"]
       ELSE MoveEnds(s)
    /\ UNCHANGED <<storevars, concvars, seqvars, matchvars, convvars, shop, shopNext,
                   sissued, merged, moved>>

\* move_to_pantry: done_items = query_all("... WHERE user_id AND done = 1")
MoveSelectDone(s) ==
    /\ spc[s] = "select_done"
    /\ LET ids == {i \in DOMAIN shop : shop[i].done = 1}
       IN IF ids = {}
          THEN MoveEnds(s)
          ELSE \E o \in RowsInAnyOrder(ids) :
                  /\ mv' = [mv EXCEPT ![s].items = [l \in DOMAIN o |-> ShopRow(o[l])],
                                      ![s].k = 1]
                  /\ spc' = [spc EXCEPT ![s] = "lookup"]
    /\ UNCHANGED <<storevars, concvars, seqvars, matchvars, convvars, shop, shopNext,
                   sissued, merged, moved>>

\* the merge_into_pantry(uid, item_name, quantity, unit, None) a move makes for row it
MoveMerge(it) ==
    [NoReq EXCEPT !.op = "merge", !.uid = ShopUser, !.name = it.name, !.qty = it.qty,
                  !.unit = it.unit]

\* merge_into_pantry of the move's current row: existing = query_one(...)
MoveMergeLookup(s) ==
    /\ spc[s] = "lookup"
    /\ LET it == mv[s].items[mv[s].k]
           c == SelectExisting(pantry, ShopUser, it.name, it.unit)
       IN IF c = {}
          THEN mv' = [mv EXCEPT ![s].ex = NoRow]
          ELSE \E i \in c : mv' = [mv EXCEPT ![s].ex = [id |-> i]]
    /\ spc' = [spc EXCEPT ![s] = "write"]
    /\ UNCHANGED <<storevars, concvars, seqvars, matchvars, convvars, shop, shopNext,
                   sissued, merged, moved>>

\* merge_into_pantry of the move's current row: its UPDATE or INSERT, committed;
\* move_one goes on to its DELETE, move_to_pantry to its next row or to its DELETE
MoveMergeWrite(s) ==
    /\ spc[s] = "write"
    /\ LET it == mv[s].items[mv[s].k]
       IN /\ pantry' = MergeWrite(pantry, nextId, MoveMerge(it), mv[s].ex)
          /\ nextId' = IF mv[s].ex = NoRow THEN nextId + 1 ELSE nextId
          /\ merged' = [merged EXCEPT ![it.id] = @ + 1]
    /\ IF mv[s].op = "move_one"
       THEN /\ spc' = [spc EXCEPT ![s] = "delete_one"]
            /\ mv' = [mv EXCEPT ![s].ex = NoRow]
       ELSE IF mv[s].k < Len(mv[s].items)
       THEN /\ spc' = [spc EXCEPT ![s] = "lookup"]
            /\ mv' = [mv EXCEPT ![s].k = @ + 1, ![s].ex = NoRow]
       ELSE /\ spc' = [spc EXCEPT ![s] = "delete_done"]
            /\ mv' = [mv EXCEPT ![s].ex = NoRow]
    /\ UNCHANGED <<concvars, seqvars, matchvars, convvars, shop, shopNext, sissued, moved>>

\* move_one: execute("DELETE FROM shopping_list WHERE id AND user_id")
MoveOneDelete(s) ==
    /\ spc[s] = "delete_one"
    /\ shop' = [i \in DOMAIN shop \ {mv[s].id} |-> shop[i]]
    /\ moved' = moved \cup (DOMAIN shop \cap {mv[s].id})
    /\ MoveEnds(s)
    /\ UNCHANGED <<storevars, concvars, seqvars, matchvars, convvars, shopNext, sissued, merged>>

\* move_to_pantry: execute("DELETE FROM shopping_list WHERE user_id AND done = 1")
MoveDeleteDone(s) ==
    /\ spc[s] = "delete_done"
    /\ shop' = [i \in {j \in DOMAIN shop : shop[j].done # 1} |-> shop[i]]
    /\ moved' = moved \cup {j \in DOMAIN shop : shop[j].done = 1}
    /\ MoveEnds(s)
    /\ UNCHANGED <<storevars, concvars, seqvars, matchvars, convvars, shopNext, sissued, merged>>

\* a query or an execute of the move raises: the statement is rolled back and the
\* handler's except clause flashes the error; what earlier statements committed stays
MoveFails(s) ==
    /\ spc[s] # "idle"
    /\ MoveEnds(s)
    /\ UNCHANGED <<storevars, concvars, seqvars, matchvars, convvars, shop, shopNext,
                   sissued, merged, moved>>

InitShop ==
    /\ NoShop
    /\ InitStore
    /\ InitConc
    /\ InitSeq
    /\ NoMatch
    /\ NoConv

NextShop ==
    \/ AddItem
    \/ ToggleDone
    \/ \E s \in Procs :
          \/ StartMoveOne(s)
          \/ StartMoveToPantry(s)
          \/ MoveOneSelect(s)
          \/ MoveSelectDone(s)
          \/ MoveMergeLookup(s)
          \/ MoveMergeWrite(s)
          \/ MoveOneDelete(s)
          \/ MoveDeleteDone(s)
          \/ MoveFails(s)

SpecShop == InitShop /\ [][NextShop]_vars

(* ------------------------------- claims -------------------------------- *)
MergeReturned == last.op = "merge" /\ last.out = "returned"

\* the rows of user u named n whose unit is un (two absent units are equal)
KeyRows(p, u, n, un) == {i \in DOMAIN p : p[i].user = u /\ p[i].name = n /\ p[i].unit = un}

\* the rows of user u, with their ids
OwnedBy(p, u) == [i \in {j \in DOMAIN p : p[j].user = u} |-> p[i]]

\* C1: when every request has ended and only merges have run, each key that merges
\* were credited to has exactly one row, holding the sum of the quantities merged
\* (the pantry starts empty, so the previous quantity is 0).
MergesSerialize ==
    (~edited /\ \A s \in Procs : Free(s)) =>
        \A k \in Keys :
            credited[k] > 0 =>
                LET q == KeyRows(pantry, k[1], k[2], k[3])
                IN /\ Cardinality(q) = 1
                   /\ \A i \in q : pantry[i].qty = credited[k]

\* C2: after the same item has been merged N >= 1 times in a row into a pantry that
\* had no row for its key, the key has exactly one row, of quantity N * q.
RepeatedMergeOneRow ==
    streak.n >= 1 =>
        LET q == KeyRows(pantry, streak.item.uid, streak.item.name, streak.item.unit)
        IN /\ Cardinality(q) = 1
           /\ \A i \in q : pantry[i].qty = streak.n * streak.item.qty

RepeatedMergeWitness ==
    /\ streak.n = 3
    /\ streak.item.qty = 2
    /\ Cardinality(DOMAIN pantry) = 1

\* C3: a merge into an existing row keeps the row's expiry when the incoming one is
\* absent, adopts the incoming one when the row has none, and takes the earlier of
\* the two otherwise; so a row's expiry is the least of the dates merged into it
\* (none if there were none) and a merge never moves it later.
ExpiryReconciled ==
    /\ (MergeReturned /\ last.found # 0) =>
          LET old == pre[last.found].exp
              new == pantry[last.found].exp
          IN /\ last.exp = NoDate => new = old
             /\ (last.exp # NoDate /\ old = NoDate) => new = last.exp
             /\ (last.exp # NoDate /\ old # NoDate) =>
                    new = (IF old[1] <= last.exp[1] THEN old ELSE last.exp)
             /\ old # NoDate => (new # NoDate /\ new[1] <= old[1])
    /\ \A i \in DOMAIN pantry :
          pantry[i].exp = IF seen[i] = {} THEN NoDate
                          ELSE Date(CHOOSE d \in seen[i] : \A e \in seen[i] : d <= e)

ExpiryReconciledWitness ==
    /\ MergeReturned
    /\ last.found # 0
    /\ last.exp = Date(2)
    /\ pre[last.found].exp = Date(1)
    /\ seen[last.found] = {1, 2}

\* C4: a merge that finds a row of the user with the name and the unit (null-safe)
\* adds the quantity to exactly one such row and creates none; one that finds none
\* inserts exactly one row with the incoming values; every other row is as before.
UpsertPostCondition ==
    MergeReturned =>
        LET q == KeyRows(pre, last.uid, last.name, last.unit)
        IN IF q # {}
           THEN /\ DOMAIN pantry = DOMAIN pre
                /\ \E i \in q :
                      /\ pantry[i].qty = pre[i].qty + last.qty
                      /\ pantry[i].user = pre[i].user
                      /\ pantry[i].name = pre[i].name
                      /\ pantry[i].unit = pre[i].unit
                      /\ \A j \in DOMAIN pre \ {i} : pantry[j] = pre[j]
           ELSE /\ \E i \in DOMAIN pantry \ DOMAIN pre :
                      /\ DOMAIN pantry = DOMAIN pre \cup {i}
                      /\ pantry[i] = [user |-> last.uid, name |-> last.name, qty |-> last.qty,
                                      unit |-> last.unit, exp |-> last.exp]
                /\ \A j \in DOMAIN pre : pantry[j] = pre[j]

UpsertPostConditionWitness ==
    /\ MergeReturned
    /\ last.found # 0
    /\ \E j \in DOMAIN pre : pre[j].user # last.uid
    /\ \E j \in DOMAIN pre : pre[j].user = last.uid /\ pre[j].unit # last.unit

\* C5: a merge, delete or edit of one user, whatever item id it names, leaves the
\* rows of every other user as they were, and compute_recipe_match for a user
\* returns what it returns on a store holding that user's rows alone.
PerUserScoping ==
    /\ last.op \in {"merge", "delete", "edit", "match"} =>
          \A u \in Users \ {last.uid} : OwnedBy(pantry, u) = OwnedBy(pre, u)
    /\ last.op = "match" =>
          /\ pantry = pre
          /\ result = compute_recipe_match(recipe,
                          AsRows(SelectPantry(OwnedBy(pantry, last.uid), last.uid)), table)

PerUserScopingWitness ==
    /\ last.op \in {"delete", "edit"}
    /\ last.id \in DOMAIN pre
    /\ pre[last.id].user # last.uid

RECURSIVE SumAdds(_)
SumAdds(passes) ==
    IF passes = <<>> THEN Zero
    ELSE RatAdd(SumAdds(Tail(passes)), Head(passes).add.v)

\* the place of ingredient k in the list it went to
PlaceOf(k) == Cardinality({l \in 1..k : result.trace[l].into = result.trace[k].into})

\* row m and requirement r name two different units of one family of t
Convertible(m, r, t) ==
    /\ ~Falsy(m.unit)
    /\ ~Falsy(r.unit)
    /\ Lower(m.unit) # Lower(r.unit)
    /\ FamiliesWith(t, Lower(m.unit), Lower(r.unit)) # {}

\* C7: a pantry row whose unit differs from the ingredient's, both in one family of
\* the table, is converted to q * factor(from) / factor(to) (factor(to) not zero) and
\* that amount is added to the ingredient's total; flour 1 kg against flour 500 g
\* under mass = {g: 1, kg: 1000} is in have with have = 1000.
ConvertedStockCounted ==
    (mpc = "done" /\ ~result.raised) =>
        /\ \A k \in 1..Len(recipe) :
              LET ms == Matches(snapshot, recipe[k].name)
                  tr == result.trace[k]
              IN /\ Len(tr.passes) = Len(ms)
                 /\ tr.total = SumAdds(tr.passes)
                 /\ \A j \in 1..Len(ms) :
                       Convertible(ms[j], recipe[k], table) =>
                          /\ \E i \in FamiliesWith(table, Lower(ms[j].unit), Lower(recipe[k].unit)) :
                                LET units == table[i].units
                                IN /\ units[Lower(recipe[k].unit)] # Zero
                                   /\ tr.passes[j].converted =
                                        Num(RatDiv(RatMul(ms[j].qty, units[Lower(ms[j].unit)]),
                                                   units[Lower(recipe[k].unit)]))
                          /\ tr.passes[j].add = tr.passes[j].converted
        /\ (/\ recipe = <<Ing("flour", Rat(500, 1), "g")>>
            /\ snapshot = <<Stock("flour", 1, "kg")>>
            /\ source = MassTable) =>
              /\ result.have = <<[name |-> "flour", need |-> Rat(500, 1), unit |-> "g",
                                  have |-> Rat(1000, 1)]>>
              /\ result.missing = <<>>

ConvertedStockCountedWitness ==
    /\ mpc = "done"
    /\ ~result.raised
    /\ recipe = <<Ing("flour", Rat(40, 1), "oz")>>
    /\ snapshot = <<Stock("flour", 1, "kg"), Stock("FLOUR", 300, "G")>>
    /\ result.trace[1].total = Rat(1300, 28)
    /\ result.have[1].have = Rat(4643, 100)

\* row m cannot be counted toward requirement r: the units differ, and one of them
\* is absent or empty or no family of t holds both
Uncountable(m, r, t) ==
    /\ UnitKey(m.unit) # UnitKey(r.unit)
    /\ \/ Falsy(m.unit) # Falsy(r.unit)
       \/ FamiliesWith(t, Lower(m.unit), Lower(r.unit)) = {}

AddsNothing(k) ==
    LET ms == Matches(snapshot, recipe[k].name)
    IN \A j \in 1..Len(ms) :
          Uncountable(ms[j], recipe[k], table) =>
              /\ result.trace[k].passes[j].converted = Absent
              /\ result.trace[k].passes[j].add = Num(Zero)

OnlyUncountable(k) ==
    LET ms == Matches(snapshot, recipe[k].name)
    IN /\ ms # <<>>
       /\ \A j \in 1..Len(ms) : Uncountable(ms[j], recipe[k], table)

\* C8 as stated: an uncountable row is not converted and adds 0, and an ingredient
\* with only such stock is in missing with have = 0 and shortfall = required.
UncountableStockMissing ==
    (mpc = "done" /\ ~result.raised) =>
        \A k \in 1..Len(recipe) :
            /\ AddsNothing(k)
            /\ OnlyUncountable(k) =>
                  /\ result.trace[k].into = "missing"
                  /\ result.missing[PlaceOf(k)].have = Zero
                  /\ result.missing[PlaceOf(k)].short = ReqAmount(recipe[k])

\* C8, amended: an uncountable row is not converted and adds 0; an ingredient with
\* only such stock and a required amount above 0 is in missing with have = 0 and
\* shortfall = required (to two decimals), and one that requires 0 is in have with
\* have = 0.
UncountableStockAddsNothing ==
    (mpc = "done" /\ ~result.raised) =>
        \A k \in 1..Len(recipe) :
            /\ AddsNothing(k)
            /\ OnlyUncountable(k) =>
                  IF ReqAmount(recipe[k]) # Zero
                  THEN /\ result.trace[k].into = "missing"
                       /\ result.missing[PlaceOf(k)].have = Zero
                       /\ result.missing[PlaceOf(k)].short = Round2(ReqAmount(recipe[k]))
                  ELSE /\ result.trace[k].into = "have"
                       /\ result.have[PlaceOf(k)].have = Zero

UncountableStockWitness ==
    /\ mpc = "done"
    /\ ~result.raised
    /\ Len(recipe) = 2
    /\ OnlyUncountable(1)
    /\ OnlyUncountable(2)
    /\ Len(snapshot) = 2
    /\ result.trace[1].into = "missing"
    /\ result.trace[2].into = "have"
    /\ ~Falsy(recipe[1].unit)
    /\ Falsy(recipe[2].unit)

\* units a and b are both in one family of t
InOneFamily(a, b, t) ==
    /\ ~Falsy(a)
    /\ ~Falsy(b)
    /\ FamiliesWith(t, Lower(a), Lower(b)) # {}

PositiveFactors(t) ==
    \A i \in 1..Len(t) : \A u \in DOMAIN t[i].units : t[i].units[u][1] > 0

\* C9: for units A and B of one family of a table of positive factors, converting x
\* from A to B returns a number, and converting that number back returns x.
RoundTrip ==
    (cpc \in {"converted", "back"} /\ InOneFamily(cfrom, cto, table) /\ PositiveFactors(table)) =>
        /\ cout.t = "num"
        /\ cpc = "back" => cback = Num(cq)

RoundTripWitness ==
    /\ cpc = "back"
    /\ InOneFamily(cfrom, cto, table)
    /\ PositiveFactors(table)
    /\ cfrom = "KG"
    /\ cto = "oz"
    /\ cq = Rat(3, 2)
    /\ cout = Num(Rat(375, 7))
    /\ Len(table) = 2

RECURSIVE SumIdentical(_, _)
SumIdentical(ms, unit) ==
    IF ms = <<>> THEN Zero
    ELSE LET rest == SumIdentical(Tail(ms), unit)
         IN IF UnitKey(Head(ms).unit) = UnitKey(unit) THEN RatAdd(rest, Head(ms).qty) ELSE rest

LoadFails ==
    \/ ~source.available
    \/ \E i \in 1..Len(source.rows) :
          source.rows[i].unit = NoUnit \/ source.rows[i].factor = Unparsable

\* C10: when the conversion rows cannot be read or one of them is malformed, the
\* table loaded is empty, compute_recipe_match still returns, and the total of each
\* ingredient is the sum of the rows of its name whose unit is the same
\* case-insensitively (or absent on both sides).
FailOpenLoad ==
    (mpc = "done" /\ LoadFails) =>
        /\ table = <<>>
        /\ ~result.raised
        /\ Len(result.trace) = Len(recipe)
        /\ \A k \in 1..Len(recipe) :
              result.trace[k].total =
                  SumIdentical(Matches(snapshot, recipe[k].name), recipe[k].unit)

FailOpenLoadWitness ==
    /\ mpc = "done"
    /\ source.available
    /\ Len(source.rows) = 2
    /\ source.rows[2].factor = Unparsable
    /\ recipe = <<Ing("flour", Rat(500, 1), "g")>>
    /\ snapshot = <<Stock("flour", 1, "kg"), Stock("FLOUR", 300, "G")>>
    /\ result.missing[1].have = Rat(300, 1)

(* claims about exceptions and the empty recipe *)
\* C11: convert_unit returns a number or None and never raises, whatever table
\* load_unit_conversions returned and whatever the quantity and the two units are.
ConvertNeverRaises ==
    /\ cpc \in {"converted", "back"} => cout.t \in {"num", "none"}
    /\ cpc = "back" => cback.t \in {"num", "none"}

\* C12: for a recipe without ingredients compute_recipe_match returns, with
\* total = 1, have_count = 0, empty have and missing lists and match_pct = 0.
EmptyRecipeMatch ==
    (mpc = "done" /\ recipe = <<>>) =>
        /\ ~result.raised
        /\ result.total = 1
        /\ result.have_count = 0
        /\ result.have = <<>>
        /\ result.missing = <<>>
        /\ result.match_pct = Zero

EmptyRecipeMatchWitness ==
    /\ mpc = "done"
    /\ recipe = <<>>
    /\ Len(snapshot) = 2
    /\ table # <<>>
    /\ result.total = 1
    /\ result.match_pct = Zero

(* claims about the classification *)
\* what the rows ms of an ingredient's name count for toward requirement r: the
\* quantity of a row of the same unit, the converted quantity of a convertible
\* row, nothing for the others
RECURSIVE StockTotal(_, _, _)
StockTotal(ms, r, t) ==
    IF ms = <<>> THEN Zero
    ELSE LET m == Head(ms)
             rest == StockTotal(Tail(ms), r, t)
         IN IF UnitKey(m.unit) = UnitKey(r.unit) THEN RatAdd(rest, m.qty)
            ELSE IF Convertible(m, r, t)
            THEN LET fams == FamiliesWith(t, Lower(m.unit), Lower(r.unit))
                     i == CHOOSE f \in fams : \A g \in fams : f <= g
                 IN RatAdd(rest, RatDiv(RatMul(m.qty, t[i].units[Lower(m.unit)]),
                                        t[i].units[Lower(r.unit)]))
            ELSE rest

\* the snapshot rows whose name is n case-insensitively
NamedLike(n) == SelectSeq(snapshot, LAMBDA m : Lower(m.name) = Lower(n))

\* C13 as stated: the total of an ingredient is the sum of its same-unit and
\* converted stock; it is in have with have = total iff total >= required, and
\* otherwise in missing with shortfall = required - total > 0.
ClassifiedByTotal ==
    (mpc = "done" /\ ~result.raised) =>
        \A k \in 1..Len(recipe) :
            LET total == StockTotal(NamedLike(recipe[k].name), recipe[k], table)
                required == ReqAmount(recipe[k])
            IN /\ result.trace[k].total = total
               /\ IF RatGeq(total, required)
                  THEN /\ result.trace[k].into = "have"
                       /\ result.have[PlaceOf(k)].have = total
                  ELSE /\ result.trace[k].into = "missing"
                       /\ result.missing[PlaceOf(k)].short = RatSub(required, total)
                       /\ ~RatGeq(Zero, result.missing[PlaceOf(k)].short)

\* C13, amended: the same, with have = total rounded to two decimals in both
\* lists and shortfall = required - total rounded to two decimals, required - total
\* being above 0 before the rounding.
ClassifiedByRoundedTotal ==
    (mpc = "done" /\ ~result.raised) =>
        \A k \in 1..Len(recipe) :
            LET total == StockTotal(NamedLike(recipe[k].name), recipe[k], table)
                required == ReqAmount(recipe[k])
            IN /\ result.trace[k].total = total
               /\ IF RatGeq(total, required)
                  THEN /\ result.trace[k].into = "have"
                       /\ result.have[PlaceOf(k)].have = Round2(total)
                  ELSE /\ result.trace[k].into = "missing"
                       /\ result.missing[PlaceOf(k)].have = Round2(total)
                       /\ result.missing[PlaceOf(k)].short = Round2(RatSub(required, total))
                       /\ ~RatGeq(Zero, RatSub(required, total))

ClassifiedByRoundedTotalWitness ==
    /\ mpc = "done"
    /\ ~result.raised
    /\ recipe = <<Ing("flour", Rat(40, 1), "oz"), Ing("Flour", <<>>, NoUnit)>>
    /\ snapshot = <<Stock("flour", 1, "kg"), Stock("flour", 1, NoUnit)>>
    /\ result.trace[1].total = Rat(250, 7)
    /\ result.missing[1].have = Rat(3571, 100)
    /\ result.missing[1].short = Rat(429, 100)
    /\ result.have[1].have = Rat(1, 1)

Picked(S) ==
    [l \in 1..Cardinality(S) |->
        recipe[CHOOSE k \in S : Cardinality({j \in S : j <= k}) = l]]

\* list holds one entry for each row of rs, in the same order
EntriesOf(list, rs) ==
    /\ Len(list) = Len(rs)
    /\ \A l \in 1..Len(rs) :
          /\ list[l].name = rs[l].name
          /\ list[l].need = ReqAmount(rs[l])
          /\ list[l].unit = rs[l].unit

\* C15: have and missing partition the ingredient rows, duplicates of a name
\* included: every row is in exactly one of the two lists, exactly once, and each
\* list keeps the order of the ingredient rows.
StablePartition ==
    (mpc = "done" /\ ~result.raised) =>
        /\ Len(result.have) + Len(result.missing) = Len(recipe)
        /\ \E H \in SUBSET (1..Len(recipe)) :
              /\ EntriesOf(result.have, Picked(H))
              /\ EntriesOf(result.missing, Picked((1..Len(recipe)) \ H))
              /\ \A k \in 1..Len(recipe) : k \in H <=> result.trace[k].into = "have"

StablePartitionWitness ==
    /\ mpc = "done"
    /\ ~result.raised
    /\ Len(recipe) = 2
    /\ Lower(recipe[1].name) = Lower(recipe[2].name)
    /\ recipe[1].unit = "oz"
    /\ recipe[2].unit = "g"
    /\ Len(result.have) = 2
    /\ result.have[1].unit = "oz"

(* claims about the row a merge chooses *)
\* C16: when several rows of the user have the incoming name and unit, the merge
\* updates one whose expiry is the earliest present one, or one without expiry when
\* none of them has one; that row gets the quantity and the reconciled expiry, and
\* every other row, qualifying or not, is as before.
EarliestExpiryChosen ==
    LET q == KeyRows(pre, last.uid, last.name, last.unit)
    IN (MergeReturned /\ Cardinality(q) >= 2) =>
          /\ last.found \in q
          /\ \A j \in q :
                pre[j].exp # NoDate =>
                    /\ pre[last.found].exp # NoDate
                    /\ pre[last.found].exp[1] <= pre[j].exp[1]
          /\ DOMAIN pantry = DOMAIN pre
          /\ pantry[last.found].qty = pre[last.found].qty + last.qty
          /\ \A j \in DOMAIN pre \ {last.found} : pantry[j] = pre[j]

EarliestExpiryChosenWitness ==
    /\ MergeReturned
    /\ KeyRows(pre, last.uid, last.name, last.unit) = {1, 2}
    /\ pre[1].exp = NoDate
    /\ pre[2].exp = Date(2)
    /\ last.found = 2
    /\ last.exp = Date(1)
    /\ pantry[2].exp = Date(1)
    /\ pantry[1] = pre[1]

(* claims about a pair of units held by several families *)
\* the families of the loaded rows that hold both keys
FamiliesOfRows(u1, u2) ==
    {f \in {source.rows[i].family : i \in 1..Len(source.rows)} :
        /\ \E i \in 1..Len(source.rows) :
              source.rows[i].family = f /\ Lower(source.rows[i].unit) = u1
        /\ \E i \in 1..Len(source.rows) :
              source.rows[i].family = f /\ Lower(source.rows[i].unit) = u2}

\* of the families fs, the one whose first row comes first in the loaded rows
FirstAppearing(fs) ==
    LET at(f) == CHOOSE i \in 1..Len(source.rows) :
                    /\ source.rows[i].family = f
                    /\ \A j \in 1..(i - 1) : source.rows[j].family # f
    IN CHOOSE f \in fs : \A g \in fs : at(f) <= at(g)

\* the factor the table holds for key u of family f: that of its last row
FactorOfRows(f, u) ==
    LET is == {i \in 1..Len(source.rows) :
                  source.rows[i].family = f /\ Lower(source.rows[i].unit) = u}
    IN source.rows[CHOOSE i \in is : \A j \in is : j <= i].factor

\* the two units differ and more than one family of the table holds both
Ambiguous ==
    /\ ~Falsy(cfrom)
    /\ ~Falsy(cto)
    /\ Lower(cfrom) # Lower(cto)
    /\ table # <<>>
    /\ Cardinality(FamiliesOfRows(Lower(cfrom), Lower(cto))) > 1

\* C17: for a pair of units that more than one family holds, convert_unit returns
\* a number and does not raise, and the number is q * factor(from) / factor(to)
\* with the factors of the family that appears first in the loaded rows.
FirstFamilyWins ==
    (cpc \in {"converted", "back"} /\ Ambiguous) =>
        LET f == FirstAppearing(FamiliesOfRows(Lower(cfrom), Lower(cto)))
        IN /\ cout.t = "num"
           /\ cout.v = RatDiv(RatMul(cq, FactorOfRows(f, Lower(cfrom))),
                              FactorOfRows(f, Lower(cto)))

(* claims about requests that interleave *)
\* C18: a merge that returns has, by its write, added the incoming quantity to a
\* row (found or inserted) that then belongs to the user and has the incoming name
\* and unit, whatever deletes and edits ran between its lookup and its write.
MergeCreditsMatchingRow ==
    [][\A s \in Procs :
          (pc[s] = "merge_write" /\ pc'[s] = "returned") =>
              \E i \in DOMAIN pantry' :
                  /\ pantry'[i].user = req[s].uid
                  /\ pantry'[i].name = req[s].name
                  /\ pantry'[i].unit = req[s].unit
                  /\ pantry'[i].qty =
                        (IF i \in DOMAIN pantry THEN pantry[i].qty ELSE 0) + req[s].qty]_vars

\* C19: moves conserve quantity: an item a move deleted was merged into the pantry
\* exactly once, no item is merged more than once, and once every move has ended
\* no item that was merged is still on the list.
MovesConserve ==
    /\ \A i \in moved : merged[i] = 1
    /\ \A i \in ShopIds : merged[i] <= 1
    /\ (\A s \in Procs : spc[s] = "idle") => \A i \in DOMAIN shop : merged[i] = 0

====
